---- MODULE Spec2Model ----
(***************************************************************************)
(* Verification model of the three quality-metric scripts:                 *)
(*   WQI_calc.py       weighted Water Quality Index                        *)
(*   X_bar_R_C.py      X-bar / R control charts with Cp / Cpk              *)
(*   pp_ppk_analysis.py  long-term performance indices Pp / Ppk            *)
(***************************************************************************)
EXTENDS Integers, Sequences, FiniteSets, TLC

(***************************************************************************)
(* Natural numbers wider than 31 bits, as little-endian sequences of       *)
(* 15-bit limbs without leading zero limbs (zero is the empty sequence).   *)
(* They carry the 53-bit significands of Python floats.                    *)
(***************************************************************************)
Base == 2^15

RECURSIVE BNorm(_)
BNorm(a) ==
  IF a = <<>> THEN a
  ELSE IF a[Len(a)] = 0 THEN BNorm(SubSeq(a, 1, Len(a) - 1)) ELSE a

RECURSIVE BFromInt(_)
BFromInt(n) == IF n = 0 THEN <<>> ELSE <<n % Base>> \o BFromInt(n \div Base)

Limb(a, i) == IF i <= Len(a) THEN a[i] ELSE 0

RECURSIVE BAddC(_, _, _, _)
BAddC(a, b, i, c) ==
  IF i > Len(a) /\ i > Len(b)
  THEN (IF c = 0 THEN <<>> ELSE <<c>>)
  ELSE LET s == Limb(a, i) + Limb(b, i) + c
       IN  <<s % Base>> \o BAddC(a, b, i + 1, s \div Base)

BAdd(a, b) == BAddC(a, b, 1, 0)

RECURSIVE BSubC(_, _, _, _)
BSubC(a, b, i, br) ==
  IF i > Len(a) THEN <<>>
  ELSE LET d == a[i] - Limb(b, i) - br
       IN  <<IF d < 0 THEN d + Base ELSE d>>
             \o BSubC(a, b, i + 1, IF d < 0 THEN 1 ELSE 0)

\* a - b for a >= b
BSub(a, b) == BNorm(BSubC(a, b, 1, 0))

RECURSIVE BCmpFrom(_, _, _)
BCmpFrom(a, b, i) ==
  IF i = 0 THEN 0
  ELSE IF a[i] # b[i] THEN (IF a[i] < b[i] THEN -1 ELSE 1)
  ELSE BCmpFrom(a, b, i - 1)

\* -1, 0, 1 as a < b, a = b, a > b
BCmp(a, b) ==
  IF Len(a) # Len(b) THEN (IF Len(a) < Len(b) THEN -1 ELSE 1)
  ELSE BCmpFrom(a, b, Len(a))

RECURSIVE BMulSmallC(_, _, _, _)
BMulSmallC(a, k, i, c) ==
  IF i > Len(a) THEN (IF c = 0 THEN <<>> ELSE <<c>>)
  ELSE LET p == a[i] * k + c
       IN  <<p % Base>> \o BMulSmallC(a, k, i + 1, p \div Base)

\* a * k for 0 <= k < Base
BMulSmall(a, k) == IF k = 0 THEN <<>> ELSE BMulSmallC(a, k, 1, 0)

BShiftLimbs(a, n) == IF a = <<>> THEN a ELSE [i \in 1..n |-> 0] \o a

RECURSIVE BMulFrom(_, _, _)
BMulFrom(a, b, j) ==
  IF j > Len(b) THEN <<>>
  ELSE BAdd(BShiftLimbs(BMulSmall(a, b[j]), j - 1), BMulFrom(a, b, j + 1))

BMul(a, b) == BMulFrom(a, b, 1)

\* a * 2^n
BShl(a, n) == BShiftLimbs(BMulSmall(a, 2^(n % 15)), n \div 15)

RECURSIVE BDivSmallAt(_, _, _, _)
BDivSmallAt(a, k, i, r) ==
  IF i = 0 THEN [q |-> <<>>, r |-> r]
  ELSE LET cur  == r * Base + a[i]
           rest == BDivSmallAt(a, k, i - 1, cur % k)
       IN  [q |-> rest.q \o <<cur \div k>>, r |-> rest.r]

\* floor(a / 2^n)
BShr(a, n) ==
  LET w == n \div 15
  IN  IF w >= Len(a) THEN <<>>
      ELSE LET hi == SubSeq(a, w + 1, Len(a))
           IN  BNorm(BDivSmallAt(hi, 2^(n % 15), Len(hi), 0).q)

RECURSIVE IBitLen(_)
IBitLen(n) == IF n = 0 THEN 0 ELSE 1 + IBitLen(n \div 2)

BBitLen(a) == IF a = <<>> THEN 0 ELSE 15 * (Len(a) - 1) + IBitLen(a[Len(a)])

BIsOdd(a) == a # <<>> /\ a[1] % 2 = 1


(***************************************************************************)
(* Python floats (IEEE-754 binary64) of the WQI script.  Every quantity    *)
(* there is non-negative, so a float is NaN or m * 2^e with m an odd       *)
(* natural of at most MantDig bits (m = <<>>, e = 0 for zero).  Each       *)
(* operation computes the exact result and rounds it once, to nearest,     *)
(* ties to even.  Exponents stay far inside the binary64 range for the     *)
(* inputs drawn below, so overflow and subnormals are not represented.     *)
(***************************************************************************)
MantDig == 53

NaN == [kind |-> "nan", m |-> <<>>, e |-> 0]

Zero == [kind |-> "num", m |-> <<>>, e |-> 0]

IsNaN(x) == x.kind = "nan"

IsZero(x) == x.kind = "num" /\ x.m = <<>>

RECURSIVE ITrailingZeros(_)
ITrailingZeros(n) == IF n % 2 = 1 THEN 0 ELSE 1 + ITrailingZeros(n \div 2)

\* the float m * 2^e with the trailing zero bits of m moved into e
RECURSIVE Canon(_, _)
Canon(m, e) ==
  IF m = <<>> THEN Zero
  ELSE IF m[1] = 0 THEN Canon(Tail(m), e + 15)
  ELSE LET z == ITrailingZeros(m[1])
       IN  [kind |-> "num", m |-> BShr(m, z), e |-> e + z]

\* m * 2^e (plus a positive amount below one unit of m when sticky) rounded
\* to MantDig bits, to nearest, ties to even
FRound(m, e, sticky) ==
  LET len == BBitLen(m)
  IN  IF len <= MantDig THEN Canon(m, e)
      ELSE LET sh   == len - MantDig
               q    == BShr(m, sh)
               rem  == BSub(m, BShl(q, sh))
               c    == BCmp(rem, BShl(<<1>>, sh - 1))
               up   == c > 0 \/ (c = 0 /\ (sticky \/ BIsOdd(q)))
           IN  Canon(IF up THEN BAdd(q, <<1>>) ELSE q, e + sh)

FromInt(n) == Canon(BFromInt(n), 0)

\* x + y
FAdd(x, y) ==
  IF IsNaN(x) \/ IsNaN(y) THEN NaN
  ELSE IF IsZero(x) THEN y
  ELSE IF IsZero(y) THEN x
  ELSE LET e == IF x.e < y.e THEN x.e ELSE y.e
       IN  FRound(BAdd(BShl(x.m, x.e - e), BShl(y.m, y.e - e)), e, FALSE)

\* x * y
FMul(x, y) ==
  IF IsNaN(x) \/ IsNaN(y) THEN NaN
  ELSE FRound(BMul(x.m, y.m), x.e + y.e, FALSE)

\* A natural below 2^60 as two 30-bit halves, for the inner loop of the division
Half == 2^30

Halves(a) ==
  [hi |-> Limb(a, 3) + Limb(a, 4) * Base, lo |-> Limb(a, 1) + Limb(a, 2) * Base]

FromHalves(hi, lo) == BNorm(<<lo % Base, lo \div Base, hi % Base, hi \div Base>>)

\* binary long division: n more quotient bits of r / b for r < b < 2^54, the
\* quotient so far being q; r, b and q are given by their halves.  The first
\* conjunct of the test is always true: it makes TLC evaluate the quotient at
\* every step instead of building a chain of suspended additions
RECURSIVE DivBits(_, _, _, _, _, _, _)
DivBits(rh, rl, bh, bl, qh, ql, n) ==
  IF n = 0 THEN [q |-> FromHalves(qh, ql), exact |-> rh = 0 /\ rl = 0]
  ELSE LET c   == IF 2 * rl >= Half THEN 1 ELSE 0
           h2  == 2 * rh + c
           l2  == 2 * rl - c * Half
           qc  == IF 2 * ql >= Half THEN 1 ELSE 0
           nqh == 2 * qh + qc
           nql == 2 * ql - qc * Half
           br  == IF l2 < bl THEN 1 ELSE 0
       IN  IF nqh + nql >= 0 /\ (h2 > bh \/ (h2 = bh /\ l2 >= bl))
           THEN DivBits(h2 - bh - br, l2 - bl + br * Half, bh, bl,
                        nqh, nql + 1, n - 1)
           ELSE DivBits(h2, l2, bh, bl, nqh, nql, n - 1)

\* x / y for y # 0, y's significand one limb: schoolbook division by a digit
FDivShort(x, y) ==
  LET la == BBitLen(x.m)
      lb == BBitLen(y.m)
      s  == IF la >= lb + MantDig + 2 THEN 0 ELSE lb + MantDig + 2 - la
      a  == BShl(x.m, s)
      d  == BDivSmallAt(a, y.m[1], Len(a), 0)
  IN  FRound(BNorm(d.q), x.e - y.e - s, d.r # 0)

\* x / y for y # 0, any significand: binary long division
FDivLong(x, y) ==
  LET la  == BBitLen(x.m)
      lb  == BBitLen(y.m)
      a   == IF la < lb THEN BShl(x.m, lb - la) ELSE x.m
      b   == IF lb < la THEN BShl(y.m, la - lb) ELSE y.m
      ge  == BCmp(a, b) >= 0
      r   == Halves(IF ge THEN BSub(a, b) ELSE a)
      d   == DivBits(r.hi, r.lo, Halves(b).hi, Halves(b).lo,
                     0, IF ge THEN 1 ELSE 0, MantDig + 3)
  IN  FRound(d.q, x.e - y.e + la - lb - (MantDig + 3), ~d.exact)

\* x / y for y # 0
FDivNonZero(x, y) ==
  IF IsNaN(x) \/ IsNaN(y) THEN NaN
  ELSE IF IsZero(x) THEN Zero
  ELSE IF Len(y.m) = 1 THEN FDivShort(x, y)
  ELSE FDivLong(x, y)

\* -1, 0, 1 as x < y, x = y, x > y, for numbers
FCmp(x, y) ==
  IF IsZero(x) THEN (IF IsZero(y) THEN 0 ELSE -1)
  ELSE IF IsZero(y) THEN 1
  ELSE LET e == IF x.e < y.e THEN x.e ELSE y.e
       IN  BCmp(BShl(x.m, x.e - e), BShl(y.m, y.e - e))

\* Python's x < y and x <= y: false as soon as one side is NaN
FLess(x, y) == ~IsNaN(x) /\ ~IsNaN(y) /\ FCmp(x, y) < 0

FLessEq(x, y) == ~IsNaN(x) /\ ~IsNaN(y) /\ FCmp(x, y) <= 0


\* Python's x / y on floats raises ZeroDivisionError when y is zero
RaisesZeroDivision(x, y) == IsZero(y)

Unset == [kind |-> "unset", m |-> <<>>, e |-> 0]

(***************************************************************************)
(* Numbers of the two capability scripts.  Their inputs are drawn from     *)
(* small integers, on which numpy's float64 sums, means and ranges are     *)
(* exact; what the claims about them turn on is which branch is taken and  *)
(* what a division by zero yields, so a number is an exact fraction n/d    *)
(* (d > 0, lowest terms) or one of numpy's NaN, +inf, -inf.  None is the   *)
(* absent argument of X_bar_R_C.py.                                        *)
(***************************************************************************)
Abs(x) == IF x < 0 THEN 0 - x ELSE x

RECURSIVE GCD(_, _)
GCD(a, b) == IF b = 0 THEN a ELSE GCD(b, a % b)

QNaN == [kind |-> "nan", n |-> 0, d |-> 1]

QInf == [kind |-> "inf", n |-> 0, d |-> 1]

QNegInf == [kind |-> "-inf", n |-> 0, d |-> 1]

None == [kind |-> "none", n |-> 0, d |-> 1]

\* n/d for d # 0
Q(n, d) ==
  LET g == GCD(Abs(n), Abs(d))
      sgn == IF d < 0 THEN 0 - 1 ELSE 1
  IN  [kind |-> "num", n |-> sgn * (n \div g), d |-> sgn * (d \div g)]

QInt(n) == [kind |-> "num", n |-> n, d |-> 1]

IsNum(x) == x.kind = "num"

\* the arguments of the arithmetic below are numbers wherever it is used
QAdd(x, y) == Q(x.n * y.d + y.n * x.d, x.d * y.d)

QSub(x, y) == Q(x.n * y.d - y.n * x.d, x.d * y.d)

QMul(x, y) == Q(x.n * y.n, x.d * y.d)

\* numpy's x / y on float64: a zero divisor gives +inf, -inf or NaN (with a
\* RuntimeWarning), never an exception
QDiv(x, y) ==
  IF y.n = 0
  THEN (IF x.n > 0 THEN QInf ELSE IF x.n < 0 THEN QNegInf ELSE QNaN)
  ELSE Q(x.n * y.d, x.d * y.n)

\* x < y as Python evaluates it: false as soon as one side is NaN
QLess(x, y) ==
  /\ x.kind # "nan" /\ y.kind # "nan"
  /\ \/ x.kind = "-inf" /\ y.kind # "-inf"
     \/ x.kind # "inf" /\ y.kind = "inf"
     \/ x.kind = "num" /\ y.kind = "num" /\ x.n * y.d < y.n * x.d

\* Python's builtin min(x, y): y if y < x else x
PyMin(x, y) == IF QLess(y, x) THEN y ELSE x

RECURSIVE SeqSum(_, _)
SeqSum(xs, i) == IF i = 0 THEN QInt(0) ELSE QAdd(SeqSum(xs, i - 1), xs[i])

\* arithmetic mean of a non-empty sequence of numbers
QMean(xs) == QDiv(SeqSum(xs, Len(xs)), QInt(Len(xs)))

(***************************************************************************)
(* State of the three scripts.  One script runs in a behaviour; pc is its  *)
(* position and err the exception that ended it, if any.                   *)
(***************************************************************************)
VARIABLES
  pc, err,
  \* WQI_calc.py
  standards, df, K, weights, wqi, wqiClass, monthly_avg_wqi,
  contribution, avg_contributions,
  \* pp_ppk_analysis.py
  capData, capNext, capability, results, results_df,
  \* X_bar_R_C.py
  xData, specs, xNext, values_csv, all_results, summary_csv, call, returned

wqiVars == <<standards, df, K, weights, wqi, wqiClass, monthly_avg_wqi,
             contribution, avg_contributions>>

capVars == <<capData, capNext, capability, results, results_df>>

xbarVars == <<xData, specs, xNext, values_csv, all_results, summary_csv,
              call, returned>>

vars == <<pc, err, wqiVars, capVars, xbarVars>>

\* the variables of a script that does not run in the behaviour
WqiIdle ==
  /\ standards = <<>> /\ df = <<>> /\ K = Unset /\ weights = <<>>
  /\ wqi = <<>> /\ wqiClass = <<>> /\ monthly_avg_wqi = Unset
  /\ contribution = <<>> /\ avg_contributions = <<>>

CapIdle ==
  /\ capData = <<>> /\ capNext = 0 /\ capability = <<>> /\ results = <<>>
  /\ results_df = <<>>

XbarIdle ==
  /\ xData = <<>> /\ specs = <<>> /\ xNext = 0 /\ values_csv = <<>>
  /\ all_results = <<>> /\ summary_csv = <<>> /\ call = <<>>
  /\ returned = <<>>

(***************************************************************************)
(* WQI_calc.py                                                             *)
(***************************************************************************)
\* the keys of the standards dict, in insertion order
Parameters == <<"MES", "DCO", "DBO5">>

ParamSet == {Parameters[i] : i \in DOMAIN Parameters}

\* the rows of the input table, by their Date
Dates == <<"d1", "d2">>

DateSet == {Dates[i] : i \in DOMAIN Dates}

MaxStd == 2

\* the standards {A: 10, B: 20, C: 5} of the round-trip scenario
RoundTripStandards ==
  [p \in ParamSet |-> CASE p = "MES" -> 10 [] p = "DCO" -> 20 [] p = "DBO5" -> 5]

StandardsTables == [ParamSet -> 1..MaxStd] \cup {RoundTripStandards}

\* a cell of the input table: absent (read as NaN), 0, or the standard itself
CellKinds == {"missing", "zero", "standard"}

Measured(kind, s) ==
  CASE kind = "missing"  -> NaN
    [] kind = "zero"     -> Zero
    [] kind = "standard" -> FromInt(s)

\* sum of f over Parameters[1..i], added left to right from the int 0
RECURSIVE SumParams(_, _)
SumParams(f, i) ==
  IF i = 0 THEN Zero ELSE FAdd(SumParams(f, i - 1), f[Parameters[i]])

\* K = 1 / sum(1/s for s in standards.values())
KFactor(st) ==
  FDivNonZero(FromInt(1),
              SumParams([p \in ParamSet |-> FDivNonZero(FromInt(1), FromInt(st[p]))],
                        Len(Parameters)))

\* the weights without the normalisation by K
WeightsUnnormalised(k, st) ==
  [p \in ParamSet |-> FDivNonZero(FromInt(1), FromInt(st[p]))]

\* weights = {param: K/s for param, s in standards.items()}
Weights(k, st) == [p \in ParamSet |-> FDivNonZero(k, FromInt(st[p]))]

\* qi_wi of one parameter in calculate_wqi
QiWi(ci, s, w) == FMul(FMul(FDivNonZero(ci, FromInt(s)), FromInt(100)), w)

\* calculate_wqi(row): the composite index and the per-parameter subtotals
calculate_wqi(row) ==
  LET qi_wi_values == [p \in ParamSet |-> QiWi(row[p], standards[p], weights[p])]
  IN  [wqi |-> SumParams(qi_wi_values, Len(Parameters)),
       qi_wi_values |-> qi_wi_values]

\* classify_wqi with the first boundary taken into the lower class
classify_wqi_closed(w) ==
  IF FLessEq(w, FromInt(50)) THEN "Excellent"
  ELSE IF FLess(w, FromInt(100)) THEN "Good"
  ELSE IF FLess(w, FromInt(200)) THEN "Poor"
  ELSE "Unsuitable"

classify_wqi(w) ==
  IF FLess(w, FromInt(50)) THEN "Excellent"
  ELSE IF FLessEq(FromInt(50), w) /\ FLess(w, FromInt(100)) THEN "Good"
  ELSE IF FLessEq(FromInt(100), w) /\ FLess(w, FromInt(200)) THEN "Poor"
  ELSE "Unsuitable"

\* Series.mean(): NaN entries are skipped; NaN when nothing is left
RECURSIVE SumDates(_, _)
SumDates(col, i) ==
  IF i = 0 THEN Zero
  ELSE FAdd(SumDates(col, i - 1),
            IF IsNaN(col[Dates[i]]) THEN Zero ELSE col[Dates[i]])

Mean(col) ==
  LET count == Cardinality({d \in DateSet : ~IsNaN(col[d])})
  IN  IF count = 0 THEN NaN
      ELSE FDivNonZero(SumDates(col, Len(Dates)), FromInt(count))

\* calculate_parameter_contributions(row), for a row whose WQI is not zero
calculate_parameter_contributions(row, total_qi_wi) ==
  LET qi_wi_values == calculate_wqi(row).qi_wi_values
  IN  [p \in ParamSet |->
         FMul(FDivNonZero(qi_wi_values[p], total_qi_wi), FromInt(100))]


InitWQI ==
  /\ pc = "weights"
  /\ err = "none"
  /\ standards \in StandardsTables
  /\ \E kinds \in [DateSet -> [ParamSet -> CellKinds]] :
       df = [d \in DateSet |->
               [p \in ParamSet |-> Measured(kinds[d][p], standards[p])]]
  /\ K = Unset
  /\ weights = [p \in ParamSet |-> Unset]
  /\ wqi = [d \in DateSet |-> Unset]
  /\ wqiClass = [d \in DateSet |-> "unset"]
  /\ monthly_avg_wqi = Unset
  /\ contribution = [d \in DateSet |-> [p \in ParamSet |-> Unset]]
  /\ avg_contributions = [p \in ParamSet |-> Unset]
  /\ CapIdle /\ XbarIdle

\* lines 26-28
ComputeWeights ==
  /\ pc = "weights"
  /\ K' = KFactor(standards)
  /\ weights' = Weights(K', standards)
  /\ pc' = "apply"
  /\ UNCHANGED <<err, standards, df, wqi, wqiClass, monthly_avg_wqi,
                 contribution, avg_contributions, capVars, xbarVars>>

\* lines 43-44: df['WQI'] = df.apply(calculate_wqi, axis=1)[0]
ApplyWqi ==
  /\ pc = "apply"
  /\ wqi' = [d \in DateSet |-> calculate_wqi(df[d]).wqi]
  /\ pc' = "classify"
  /\ UNCHANGED <<err, standards, df, K, weights, wqiClass, monthly_avg_wqi,
                 contribution, avg_contributions, capVars, xbarVars>>

\* line 57: df['WQI_Class'] = df['WQI'].apply(classify_wqi)
Classify ==
  /\ pc = "classify"
  /\ wqiClass' = [d \in DateSet |-> classify_wqi(wqi[d])]
  /\ pc' = "average"
  /\ UNCHANGED <<err, standards, df, K, weights, wqi, monthly_avg_wqi,
                 contribution, avg_contributions, capVars, xbarVars>>

\* line 60
MonthlyAverage ==
  /\ pc = "average"
  /\ monthly_avg_wqi' = Mean(wqi)
  /\ pc' = "contributions"
  /\ UNCHANGED <<err, standards, df, K, weights, wqi, wqiClass,
                 contribution, avg_contributions, capVars, xbarVars>>

\* lines 75-76: df.apply(calculate_parameter_contributions, axis=1).  The
\* division qi_wi / total_qi_wi of a row whose WQI is 0 is 0.0 / 0.0.  On
\* Python floats (the scalars of an object-dtype row) it raises
\* ZeroDivisionError, which nothing catches: the script ends.  On numpy
\* scalars it yields NaN with a warning.  Both are represented.
ContributionsRaise ==
  /\ pc = "contributions"
  /\ \E d \in DateSet : RaisesZeroDivision(Zero, wqi[d])
  /\ pc' = "aborted"
  /\ err' = "ZeroDivisionError"
  /\ UNCHANGED <<wqiVars, capVars, xbarVars>>

Contributions ==
  /\ pc = "contributions"
  /\ contribution' =
       [d \in DateSet |->
          IF RaisesZeroDivision(Zero, wqi[d])
          THEN [p \in ParamSet |-> NaN]
          ELSE calculate_parameter_contributions(df[d], wqi[d])]
  /\ pc' = "avg_contributions"
  /\ UNCHANGED <<err, standards, df, K, weights, wqi, wqiClass,
                 monthly_avg_wqi, avg_contributions, capVars, xbarVars>>

\* line 79
AverageContributions ==
  /\ pc = "avg_contributions"
  /\ avg_contributions' =
       [p \in ParamSet |-> Mean([d \in DateSet |-> contribution[d][p]])]
  /\ pc' = "output"
  /\ UNCHANGED <<err, standards, df, K, weights, wqi, wqiClass,
                 monthly_avg_wqi, contribution, capVars, xbarVars>>

\* lines 82-83: df.to_csv(output_filename)
Output ==
  /\ pc = "output"
  /\ pc' = "done"
  /\ UNCHANGED <<err, wqiVars, capVars, xbarVars>>

NextWQI ==
  \/ ComputeWeights
  \/ ApplyWqi
  \/ Classify
  \/ MonthlyAverage
  \/ ContributionsRaise
  \/ Contributions
  \/ AverageContributions
  \/ Output

SpecWQI == InitWQI /\ [][NextWQI]_vars


(***************************************************************************)
(* classify_wqi on its own: the WQI column is drawn from the integers up   *)
(* to MaxWqi and the floats next to each threshold.                        *)
(***************************************************************************)
MaxWqi == 201

Thresholds == {50, 100, 200}

\* the floats just below and just above the integer n (n not a power of two)
Neighbours(n) ==
  LET k == MantDig - IBitLen(n)
  IN  {Canon(BSub(BShl(BFromInt(n), k), <<1>>), 0 - k),
       Canon(BAdd(BShl(BFromInt(n), k), <<1>>), 0 - k)}

ClassifyInputs ==
  {FromInt(n) : n \in 0..MaxWqi} \cup UNION {Neighbours(n) : n \in Thresholds}

InitClassify ==
  /\ pc = "classify"
  /\ err = "none"
  /\ standards = RoundTripStandards
  /\ df = [d \in DateSet |-> [p \in ParamSet |-> NaN]]
  /\ K = Unset
  /\ weights = [p \in ParamSet |-> Unset]
  /\ wqi \in [DateSet -> ClassifyInputs]
  /\ wqiClass = [d \in DateSet |-> "unset"]
  /\ monthly_avg_wqi = Unset
  /\ contribution = [d \in DateSet |-> [p \in ParamSet |-> Unset]]
  /\ avg_contributions = [p \in ParamSet |-> Unset]
  /\ CapIdle /\ XbarIdle

NextClassify == Classify

SpecClassify == InitClassify /\ [][NextClassify]_vars

(***************************************************************************)
(* Claims about WQI_calc.py                                                *)
(***************************************************************************)
Labels == <<"Excellent", "Good", "Poor", "Unsuitable">>

LabelSet == {Labels[i] : i \in DOMAIN Labels}

Rank(label) == CHOOSE i \in DOMAIN Labels : Labels[i] = label

Classified == pc \notin {"weights", "apply", "classify"}

\* C1: classify_wqi maps every index >= 0 to exactly one of the four labels
\* by half-open thresholds (below 50 Excellent, from 50 Good, from 100 Poor,
\* from 200 Unsuitable), so 50, 100 and 200 fall in the upper class, and the
\* label never moves to a lower class as the index grows.
C1_ClassifyThresholds ==
  Classified =>
    \A d \in DateSet :
      LET w == wqi[d]
          c == wqiClass[d]
      IN  /\ c \in LabelSet
          /\ (c = "Excellent") = (FCmp(w, FromInt(50)) < 0)
          /\ (c = "Good") = (FCmp(w, FromInt(50)) >= 0 /\ FCmp(w, FromInt(100)) < 0)
          /\ (c = "Poor") = (FCmp(w, FromInt(100)) >= 0 /\ FCmp(w, FromInt(200)) < 0)
          /\ (c = "Unsuitable") = (FCmp(w, FromInt(200)) >= 0)
          /\ \A d2 \in DateSet :
               FCmp(w, wqi[d2]) <= 0 => Rank(c) <= Rank(wqiClass[d2])

C1_Witness ==
  /\ Classified
  /\ wqi["d1"] = FromInt(50) /\ wqiClass["d1"] = "Good"
  /\ wqi["d2"] = FromInt(200) /\ wqiClass["d2"] = "Unsuitable"


WeightsKnown == pc # "weights"

Applied == pc \notin {"weights", "apply"}

ContributionsDone == pc \in {"avg_contributions", "output", "done", "aborted"}

\* every measured value of the row equals its standard
AtStandard(d) == \A p \in ParamSet : df[d][p] = FromInt(standards[p])

WeightSum == SumParams(weights, Len(Parameters))

\* x is a number within the relative distance 2^-46 of the integer c
Near(x, c) ==
  /\ x.kind = "num"
  /\ FCmp(x, [kind |-> "num", m |-> BSub(BShl(BFromInt(c), 46), BFromInt(c)), e |-> 0 - 46]) >= 0
  /\ FCmp(x, [kind |-> "num", m |-> BAdd(BShl(BFromInt(c), 46), BFromInt(c)), e |-> 0 - 46]) <= 0

\* C2 as stated: for every positive standards table the weights sum to 1 and
\* a row at its standards has composite index exactly 100 and is Poor.
C2_ExactForEveryTable ==
  /\ WeightsKnown => WeightSum = FromInt(1)
  /\ Applied => \A d \in DateSet : AtStandard(d) => wqi[d] = FromInt(100)
  /\ Classified => \A d \in DateSet : AtStandard(d) => wqiClass[d] = "Poor"

\* C2 (amended): for the standards {A: 10, B: 20, C: 5} the weights sum to 1
\* and the row at its standards has composite index exactly 100 and is Poor;
\* for every other positive table the sum and the index equal 1 and 100 up
\* to the rounding of float arithmetic (relative error at most 2^-46), so the
\* row is Good or Poor.
C2_RoundTrip ==
  /\ WeightsKnown =>
       /\ Near(WeightSum, 1)
       /\ standards = RoundTripStandards => WeightSum = FromInt(1)
  /\ Applied =>
       \A d \in DateSet :
         AtStandard(d) =>
           /\ Near(wqi[d], 100)
           /\ standards = RoundTripStandards => wqi[d] = FromInt(100)
  /\ Classified =>
       \A d \in DateSet :
         AtStandard(d) =>
           /\ wqiClass[d] \in {"Good", "Poor"}
           /\ standards = RoundTripStandards => wqiClass[d] = "Poor"

C2_Witness ==
  /\ pc = "done"
  /\ standards = RoundTripStandards
  /\ AtStandard("d1")
  /\ WeightSum = FromInt(1)
  /\ wqi["d1"] = FromInt(100)
  /\ wqiClass["d1"] = "Poor"

\* C4: a row whose composite index is exactly 0 gets an explicit
\* DegenerateIndex condition instead of contribution values obtained by
\* dividing by 0, every other row still gets its contribution percentages and
\* the run completes.
C4_DegenerateIndexPerRow ==
  ContributionsDone =>
    /\ pc # "aborted"
    /\ \A d \in DateSet :
         IF IsZero(wqi[d])
         THEN \A p \in ParamSet : contribution[d][p].kind = "DegenerateIndex"
         ELSE \A p \in ParamSet : contribution[d][p].kind \in {"num", "nan"}

\* C8: a row with no value for a parameter of the standards table fails with
\* MissingMeasurement: it gets no composite index and no label, and is never
\* computed as if the value were 0; rows with every value present (zeros
\* included) are computed normally.
C8_MissingMeasurementFailsRow ==
  /\ Applied =>
       \A d \in DateSet :
         IF \E p \in ParamSet : IsNaN(df[d][p])
         THEN wqi[d].kind = "MissingMeasurement"
         ELSE wqi[d].kind = "num"
  /\ Classified =>
       \A d \in DateSet :
         IF \E p \in ParamSet : IsNaN(df[d][p])
         THEN wqiClass[d] \notin LabelSet
         ELSE wqiClass[d] \in LabelSet


(***************************************************************************)
(* pp_ppk_analysis.py                                                      *)
(***************************************************************************)
\* data.columns, in file order
CapColumns == <<"P1", "P2">>

CapColumnSet == {CapColumns[i] : i \in DOMAIN CapColumns}

CapRows == 3

MaxCapVal == 2

\* a cell of the input table: an observation, or NaN where the file has none
CapCells == {QNaN} \cup {QInt(v) : v \in 1..MaxCapVal}

\* what get_spec_limits returns for one limit: a float, or NaN for "none"
LimitChoices == {QNaN, QInt(1), QInt(3)}

\* np.std(clean_data): the square root of the variance v, kept exact
Sqrt(v) == IF v.n = 0 THEN QInt(0) ELSE [kind |-> "sqrt", n |-> v.n, d |-> v.d]

\* a / (c * std_dev): numpy's division by a zero std_dev, else the number
\* (n/d) / std_dev
OverStd(a, c, std_dev) ==
  IF std_dev = QInt(0) THEN QDiv(a, QInt(0))
  ELSE LET q == QDiv(a, QInt(c))
       IN  [kind |-> "over_std", n |-> q.n, d |-> q.d]

\* x < y for two results of OverStd with the same std_dev
CapLess(x, y) ==
  IF x.kind = "over_std" /\ y.kind = "over_std"
  THEN x.n * y.d < y.n * x.d
  ELSE QLess(x, y)

\* min(ppu, ppl)
CapMin(x, y) == IF CapLess(y, x) THEN y ELSE x

calculate_pp_ppk(data, usl, lsl) ==
  LET clean_data == SelectSeq(data, LAMBDA x : x.kind # "nan")
      n          == Len(clean_data)
      mean       == QMean(clean_data)
      variance   == QMean([i \in 1..n |->
                             QMul(QSub(clean_data[i], mean),
                                  QSub(clean_data[i], mean))])
      std_dev    == Sqrt(variance)
      two_sided  == usl.kind # "nan" /\ lsl.kind # "nan"
      pp         == IF two_sided THEN OverStd(QSub(usl, lsl), 6, std_dev)
                    ELSE QNaN
      ppk        == IF two_sided
                    THEN CapMin(OverStd(QSub(usl, mean), 3, std_dev),
                                OverStd(QSub(mean, lsl), 3, std_dev))
                    ELSE IF usl.kind # "nan"
                    THEN OverStd(QSub(usl, mean), 3, std_dev)
                    ELSE IF lsl.kind # "nan"
                    THEN OverStd(QSub(mean, lsl), 3, std_dev)
                    ELSE QNaN
  IN  IF n < 2
      THEN [k \in {"Pp", "Ppk", "Mean", "Std Dev", "n"} |->
              IF k = "n" THEN QInt(n) ELSE QNaN]
      ELSE [k \in {"Pp", "Ppk", "Mean", "Std Dev", "n", "USL", "LSL"} |->
              CASE k = "Pp"      -> pp
                [] k = "Ppk"     -> ppk
                [] k = "Mean"    -> mean
                [] k = "Std Dev" -> std_dev
                [] k = "n"       -> QInt(n)
                [] k = "USL"     -> usl
                [] k = "LSL"     -> lsl]

\* the keys main reads from the returned dict, in the order it reads them
RecordKeys == <<"Mean", "Std Dev", "USL", "LSL", "Pp", "Ppk", "n">>

InitCap ==
  /\ pc = "loop"
  /\ err = "none"
  /\ capData \in [CapColumnSet -> [1..CapRows -> CapCells]]
  /\ capNext = 1
  /\ capability = <<>>
  /\ results = <<>>
  /\ results_df = <<>>
  /\ WqiIdle /\ XbarIdle

\* lines 91-104, one pass of the loop: the limits the user types (at least
\* one of them, get_spec_limits asks again otherwise), the analysis, the record
AnalyzeParameter ==
  /\ pc = "loop"
  /\ capNext <= Len(CapColumns)
  /\ \E usl \in LimitChoices, lsl \in LimitChoices :
       /\ ~(usl.kind = "nan" /\ lsl.kind = "nan")
       /\ capability' = calculate_pp_ppk(capData[CapColumns[capNext]], usl, lsl)
  /\ \A i \in DOMAIN RecordKeys : RecordKeys[i] \in DOMAIN capability'
  /\ results' = results @@
       (CapColumns[capNext] :> [i \in DOMAIN RecordKeys |-> capability'[RecordKeys[i]]])
  /\ capNext' = capNext + 1
  /\ UNCHANGED <<pc, err, capData, results_df, wqiVars, xbarVars>>

\* the same pass when the returned dict lacks a key main reads: KeyError,
\* which nothing catches
AnalyzeParameterKeyError ==
  /\ pc = "loop"
  /\ capNext <= Len(CapColumns)
  /\ \E usl \in LimitChoices, lsl \in LimitChoices :
       /\ ~(usl.kind = "nan" /\ lsl.kind = "nan")
       /\ capability' = calculate_pp_ppk(capData[CapColumns[capNext]], usl, lsl)
  /\ \E i \in DOMAIN RecordKeys : RecordKeys[i] \notin DOMAIN capability'
  /\ pc' = "aborted"
  /\ err' = "KeyError"
  /\ UNCHANGED <<capData, capNext, results, results_df, wqiVars, xbarVars>>

\* lines 107-115: the combined table
SaveResults ==
  /\ pc = "loop"
  /\ capNext > Len(CapColumns)
  /\ results_df' = results
  /\ pc' = "done"
  /\ UNCHANGED <<err, capData, capNext, capability, results, wqiVars, xbarVars>>

NextCap ==
  \/ AnalyzeParameter
  \/ AnalyzeParameterKeyError
  \/ SaveResults

SpecCap == InitCap /\ [][NextCap]_vars

(***************************************************************************)
(* Claims about pp_ppk_analysis.py                                         *)
(***************************************************************************)
Returned == DOMAIN capability # {}

\* C3: with at least 2 non-missing values, all identical (population standard
\* deviation 0), the result is an explicit DegenerateVariance condition for
\* every combination of limits; Pp and Ppk are never the infinite or NaN
\* values of a division by the zero deviation.
C3_DegenerateVarianceReported ==
  (Returned /\ capability["n"].n >= 2 /\ capability["Std Dev"] = QInt(0)) =>
    /\ capability["Pp"].kind \notin {"inf", "-inf"}
    /\ capability["Ppk"].kind \notin {"inf", "-inf", "nan"}
    /\ capability["Ppk"].kind = "DegenerateVariance"

\* C5: with fewer than 2 non-missing values and at least one limit, the
\* analysis yields Pp, Ppk, mean and standard deviation undefined and n the
\* count of non-missing values, and main goes on to the remaining parameters
\* and emits the combined table.
C5_InsufficientSamplesNonFatal ==
  /\ (Returned /\ capability["n"].n < 2) =>
       /\ \A k \in {"Pp", "Ppk", "Mean", "Std Dev"} : capability[k] = QNaN
       /\ pc # "aborted"
  /\ pc = "done" => \A p \in CapColumnSet : p \in DOMAIN results_df


(***************************************************************************)
(* X_bar_R_C.py                                                            *)
(***************************************************************************)
\* data.columns[1:], in file order; the first column is 'Sub-Groups'
XParams == <<"X1", "X2">>

XParamSet == {XParams[i] : i \in DOMAIN XParams}

MaxRows == 3

SubgroupIds == {1, 2, 3}

Observations == {1, 2, 4}

\* the keys of data.groupby('Sub-Groups') as the caller asks for them:
\* groupby sorts the group keys unless sort=False is passed
RECURSIVE Ascending(_)
Ascending(S) ==
  IF S = {} THEN <<>>
  ELSE LET least == CHOOSE x \in S : \A y \in S : x <= y
       IN  <<least>> \o Ascending(S \ {least})

\* the keys in the order in which they first appear in the rows
RECURSIVE FirstAppearance(_, _)
FirstAppearance(data, seen) ==
  IF data = <<>> THEN <<>>
  ELSE IF Head(data).sg \in seen THEN FirstAppearance(Tail(data), seen)
  ELSE <<Head(data).sg>> \o FirstAppearance(Tail(data), seen \cup {Head(data).sg})

GroupKeysUnsorted(data) == FirstAppearance(data, {})

\* line 11: grouped = data.groupby('Sub-Groups')
GroupKeys(data) == Ascending({data[i].sg : i \in DOMAIN data})

\* the observations of one group, in row order
Group(data, key) ==
  LET rows == SelectSeq(data, LAMBDA r : r.sg = key)
  IN  [i \in 1..Len(rows) |-> rows[i].v]

SeqMax(xs) == CHOOSE x \in {xs[i] : i \in DOMAIN xs} : \A i \in DOMAIN xs : xs[i] <= x

SeqMin(xs) == CHOOSE x \in {xs[i] : i \in DOMAIN xs} : \A i \in DOMAIN xs : x <= xs[i]

\* lines 21-31, in thousandths
constants ==
  [n \in 2..10 |->
     CASE n = 2  -> [a2 |-> 1880, d3 |-> 0,   d4 |-> 3267, d2 |-> 1128]
       [] n = 3  -> [a2 |-> 1023, d3 |-> 0,   d4 |-> 2574, d2 |-> 1693]
       [] n = 4  -> [a2 |-> 729,  d3 |-> 0,   d4 |-> 2282, d2 |-> 2059]
       [] n = 5  -> [a2 |-> 577,  d3 |-> 0,   d4 |-> 2114, d2 |-> 2326]
       [] n = 6  -> [a2 |-> 483,  d3 |-> 0,   d4 |-> 2004, d2 |-> 2534]
       [] n = 7  -> [a2 |-> 419,  d3 |-> 76,  d4 |-> 1924, d2 |-> 2704]
       [] n = 8  -> [a2 |-> 373,  d3 |-> 136, d4 |-> 1864, d2 |-> 2847]
       [] n = 9  -> [a2 |-> 337,  d3 |-> 184, d4 |-> 1816, d2 |-> 2970]
       [] n = 10 -> [a2 |-> 308,  d3 |-> 223, d4 |-> 1777, d2 |-> 3078]]

Thousandths(k) == Q(k, 1000)

\* lines 45-59 with "usl and lsl" style tests, which take a limit of 0 for
\* an absent one
ProcessCapabilityTruthy(xbar_bar, r_bar, d2, usl, lsl) ==
  LET has_usl == usl.kind # "none" /\ usl # QInt(0)
      has_lsl == lsl.kind # "none" /\ lsl # QInt(0)
      sigma   == QDiv(r_bar, d2)
      three   == QMul(QInt(3), sigma)
  IN  IF has_usl /\ has_lsl
      THEN [cp  |-> QDiv(QSub(usl, lsl), QMul(QInt(6), sigma)),
            cpk |-> PyMin(QDiv(QSub(usl, xbar_bar), three),
                          QDiv(QSub(xbar_bar, lsl), three))]
      ELSE IF has_usl
      THEN [cp |-> QNaN, cpk |-> QDiv(QSub(usl, xbar_bar), three)]
      ELSE IF has_lsl
      THEN [cp |-> QNaN, cpk |-> QDiv(QSub(xbar_bar, lsl), three)]
      ELSE [cp |-> QNaN, cpk |-> QNaN]

\* lines 45-59: cp and cpk
ProcessCapability(xbar_bar, r_bar, d2, usl, lsl) ==
  LET sigma == QDiv(r_bar, d2)
      three == QMul(QInt(3), sigma)
  IN  IF usl.kind # "none" /\ lsl.kind # "none"
      THEN [cp  |-> QDiv(QSub(usl, lsl), QMul(QInt(6), sigma)),
            cpk |-> PyMin(QDiv(QSub(usl, xbar_bar), three),
                          QDiv(QSub(xbar_bar, lsl), three))]
      ELSE IF usl.kind # "none"
      THEN [cp |-> QNaN, cpk |-> QDiv(QSub(usl, xbar_bar), three)]
      ELSE IF lsl.kind # "none"
      THEN [cp |-> QNaN, cpk |-> QDiv(QSub(xbar_bar, lsl), three)]
      ELSE [cp |-> QNaN, cpk |-> QNaN]

\* calculate_xbar_r(data, usl, lsl) for the rows (sg, v) of one parameter
calculate_xbar_r(data, usl, lsl) ==
  LET keys          == GroupKeys(data)
      xbar          == [j \in 1..Len(keys) |->
                          LET g == Group(data, keys[j])
                          IN  QMean([i \in 1..Len(g) |-> QInt(g[i])])]
      ranges        == [j \in 1..Len(keys) |->
                          LET g == Group(data, keys[j])
                          IN  QInt(SeqMax(g) - SeqMin(g))]
      xbar_bar      == QMean(xbar)
      r_bar         == QMean(ranges)
      subgroup_size == Len(Group(data, keys[1]))
      const         == constants[subgroup_size]
      a2            == Thousandths(const.a2)
      capa          == ProcessCapability(xbar_bar, r_bar, Thousandths(const.d2),
                                         usl, lsl)
  IN  IF subgroup_size \notin DOMAIN constants
      THEN [error |-> "ValueError"]
      ELSE [error         |-> "none",
            xbar_values   |-> xbar,
            r_values      |-> ranges,
            xbar_bar      |-> xbar_bar,
            r_bar         |-> r_bar,
            ucl_xbar      |-> QAdd(xbar_bar, QMul(a2, r_bar)),
            lcl_xbar      |-> QSub(xbar_bar, QMul(a2, r_bar)),
            ucl_r         |-> QMul(Thousandths(const.d4), r_bar),
            lcl_r         |-> QMul(Thousandths(const.d3), r_bar),
            cp            |-> capa.cp,
            cpk           |-> capa.cpk,
            subgroup_size |-> subgroup_size]

(***************************************************************************)
(* calculate_xbar_r on its own: one call on rows and limits drawn from     *)
(* small sets, both limits optional as in its signature.                   *)
(***************************************************************************)
RowsOfOne ==
  UNION {[1..n -> [sg : SubgroupIds, v : Observations]] : n \in 1..MaxRows}

\* usl and lsl default to None; 0 is a limit like any other
UpperLimits == {None, QInt(4)}

LowerLimits == {None, QInt(0)}

InitXbarR ==
  /\ pc = "call"
  /\ err = "none"
  /\ call \in [data : RowsOfOne, usl : UpperLimits, lsl : LowerLimits]
  /\ returned = <<>>
  /\ xData = <<>> /\ specs = <<>> /\ xNext = 0 /\ values_csv = <<>>
  /\ all_results = <<>> /\ summary_csv = <<>>
  /\ WqiIdle /\ CapIdle

CallReturns ==
  /\ pc = "call"
  /\ calculate_xbar_r(call.data, call.usl, call.lsl).error = "none"
  /\ returned' = calculate_xbar_r(call.data, call.usl, call.lsl)
  /\ pc' = "returned"
  /\ UNCHANGED <<err, wqiVars, capVars, xData, specs, xNext, values_csv,
                 all_results, summary_csv, call>>

\* line 36: raise ValueError("Subgroup size ... not supported")
CallRaises ==
  /\ pc = "call"
  /\ calculate_xbar_r(call.data, call.usl, call.lsl).error # "none"
  /\ pc' = "raised"
  /\ err' = calculate_xbar_r(call.data, call.usl, call.lsl).error
  /\ UNCHANGED <<wqiVars, capVars, xbarVars>>

NextXbarR == CallReturns \/ CallRaises

SpecXbarR == InitXbarR /\ [][NextXbarR]_vars


(***************************************************************************)
(* main of X_bar_R_C.py: one csv with a 'Sub-Groups' column and one column *)
(* per parameter.                                                          *)
(***************************************************************************)
MainSubgroupIds == {1, 2}

MainObservations == {1, 3}

MainUpperLimits == {QInt(4)}

MainLowerLimits == {None, QInt(0)}

Tables ==
  UNION {[1..n -> [sg : MainSubgroupIds, obs : [XParamSet -> MainObservations]]] :
           n \in 1..MaxRows}

\* line 146: data[['Sub-Groups', parameter]]
param_data(data, parameter) ==
  [i \in 1..Len(data) |-> [sg |-> data[i].sg, v |-> data[i].obs[parameter]]]

\* np.unique(data['Sub-Groups']): the distinct identifiers, ascending
np_unique(data) == Ascending({data[i].sg : i \in DOMAIN data})

InitXbarMain ==
  /\ pc = "specs"
  /\ err = "none"
  /\ xData \in Tables
  /\ specs = <<>>
  /\ xNext = 1
  /\ values_csv = <<>>
  /\ all_results = <<>>
  /\ summary_csv = <<>>
  /\ call = <<>>
  /\ returned = <<>>
  /\ WqiIdle /\ CapIdle

\* lines 136-137, one pass: get_spec_limits asks again until at least one
\* limit is given
GetSpecLimits ==
  /\ pc = "specs"
  /\ \E usl \in MainUpperLimits, lsl \in MainLowerLimits :
       /\ ~(usl.kind = "none" /\ lsl.kind = "none")
       /\ specs' = specs @@ (XParams[xNext] :> [USL |-> usl, LSL |-> lsl])
  /\ IF xNext = Len(XParams)
     THEN pc' = "process" /\ xNext' = 1
     ELSE pc' = pc /\ xNext' = xNext + 1
  /\ UNCHANGED <<err, xData, values_csv, all_results, summary_csv, call,
                 returned, wqiVars, capVars>>

\* lines 140-188, one pass in which calculate_xbar_r returns
ProcessParameter ==
  /\ pc = "process"
  /\ xNext <= Len(XParams)
  /\ LET parameter == XParams[xNext]
         usl       == specs[parameter].USL
         lsl       == specs[parameter].LSL
         res       == calculate_xbar_r(param_data(xData, parameter), usl, lsl)
         subgroup  == np_unique(xData)
     IN  /\ res.error = "none"
         /\ call' = [data |-> param_data(xData, parameter),
                     usl |-> usl, lsl |-> lsl]
         /\ returned' = res
         /\ values_csv' = values_csv @@
              (parameter :> [j \in 1..Len(subgroup) |->
                               <<subgroup[j], res.xbar_values[j], res.r_values[j]>>])
         /\ all_results' = Append(all_results,
              [Parameter |-> parameter, xbar_bar |-> res.xbar_bar,
               r_bar |-> res.r_bar, ucl_xbar |-> res.ucl_xbar,
               lcl_xbar |-> res.lcl_xbar, ucl_r |-> res.ucl_r,
               lcl_r |-> res.lcl_r, Cp |-> res.cp, Cpk |-> res.cpk,
               subgroup_size |-> res.subgroup_size, USL |-> usl, LSL |-> lsl])
  /\ xNext' = xNext + 1
  /\ UNCHANGED <<pc, err, xData, specs, summary_csv, wqiVars, capVars>>

\* the same pass when calculate_xbar_r raises at line 36: main has no handler
ProcessParameterRaises ==
  /\ pc = "process"
  /\ xNext <= Len(XParams)
  /\ LET parameter == XParams[xNext]
         res       == calculate_xbar_r(param_data(xData, parameter),
                                       specs[parameter].USL, specs[parameter].LSL)
     IN  /\ res.error # "none"
         /\ err' = res.error
         /\ call' = [data |-> param_data(xData, parameter),
                     usl |-> specs[parameter].USL, lsl |-> specs[parameter].LSL]
  /\ pc' = "aborted"
  /\ UNCHANGED <<xData, specs, xNext, values_csv, all_results, summary_csv,
                 returned, wqiVars, capVars>>

\* lines 191-192: the combined summary
SaveSummary ==
  /\ pc = "process"
  /\ xNext > Len(XParams)
  /\ summary_csv' = all_results
  /\ pc' = "done"
  /\ UNCHANGED <<err, xData, specs, xNext, values_csv, all_results, call,
                 returned, wqiVars, capVars>>

NextXbarMain ==
  \/ GetSpecLimits
  \/ ProcessParameter
  \/ ProcessParameterRaises
  \/ SaveSummary

SpecXbarMain == InitXbarMain /\ [][NextXbarMain]_vars


(***************************************************************************)
(* Properties of the control charts                                        *)
(***************************************************************************)
\* the rows of subgroup g, and its size
RowsOf(data, g) == {i \in DOMAIN data : data[i].sg = g}

SizeOf(data, g) == Cardinality(RowsOf(data, g))

Identifiers(data) == {data[i].sg : i \in DOMAIN data}

UniformSubgroups(data) ==
  \A g, h \in Identifiers(data) : SizeOf(data, g) = SizeOf(data, h)

\* C6: a failure scoped to one parameter does not abort the control-chart
\* run: the run is never aborted by the error of one parameter, and a finished
\* run has a summary entry for every parameter.
C6_ParameterFailureDoesNotAbort ==
  /\ err = "ValueError" => pc # "aborted"
  /\ pc = "done" => Len(summary_csv) = Len(XParams)

\* C7: calculate_xbar_r never returns control limits for rows whose subgroups
\* differ in size.
C7_InconsistentSubgroupSizeRejected ==
  pc = "returned" => UniformSubgroups(call.data)

\* x * k * r_bar = num * d2, that is x = num / (k * sigma) for sigma = r_bar / d2
RatioIs(x, k, num, r_bar, d2) ==
  /\ x.kind = "num"
  /\ QMul(QMul(x, QInt(k)), r_bar) = QMul(num, d2)

\* C9: Cp and Cpk follow the limits that are supplied.  Both: Cp is
\* (USL - LSL) / (6 sigma) and Cpk the smaller of (USL - xbarBar) / (3 sigma) and
\* (xbarBar - LSL) / (3 sigma); only USL or only LSL: Cpk is that one ratio and Cp
\* is NaN; neither: both NaN; sigma is rBar / d2 of the subgroup size.  A Cp that
\* is undefined is NaN, never 0.  Where rBar is 0 the ratios are numpy's
\* quotients by zero (inf, -inf or NaN), never a number.
C9_CapabilityByLimits ==
  pc = "returned" =>
    LET usl     == call.usl
        lsl     == call.lsl
        d2      == Thousandths(constants[returned.subgroup_size].d2)
        r_bar   == returned.r_bar
        above   == QSub(usl, returned.xbar_bar)
        below   == QSub(returned.xbar_bar, lsl)
        has_usl == usl.kind # "none"
        has_lsl == lsl.kind # "none"
        Cpk(num) == IF r_bar = QInt(0)
                    THEN returned.cpk.kind \in {"inf", "-inf", "nan"}
                    ELSE RatioIs(returned.cpk, 3, num, r_bar, d2)
    IN  /\ has_usl /\ has_lsl =>
             /\ IF r_bar = QInt(0)
                THEN returned.cp.kind \in {"inf", "-inf", "nan"}
                ELSE RatioIs(returned.cp, 6, QSub(usl, lsl), r_bar, d2)
             /\ Cpk(IF QLess(below, above) THEN below ELSE above)
        /\ has_usl /\ ~has_lsl => returned.cp = QNaN /\ Cpk(above)
        /\ ~has_usl /\ has_lsl => returned.cp = QNaN /\ Cpk(below)
        /\ ~has_usl /\ ~has_lsl => returned.cp = QNaN /\ returned.cpk = QNaN
        /\ ~(has_usl /\ has_lsl) => returned.cp # QInt(0)

\* a call with both limits, one of them 0, on rows with spread
C9_Witness ==
  /\ pc = "returned"
  /\ call.usl = QInt(4) /\ call.lsl = QInt(0)
  /\ returned.r_bar # QInt(0)
  /\ returned.cp.kind = "num" /\ returned.cpk.kind = "num"

\* the k-th identifier by first appearance, and by value
FirstRow(data, g) == CHOOSE i \in RowsOf(data, g) : \A j \in RowsOf(data, g) : i <= j

KthAppearing(data, k) ==
  CHOOSE g \in Identifiers(data) :
    Cardinality({h \in Identifiers(data) : FirstRow(data, h) < FirstRow(data, g)}) = k - 1

KthSmallest(data, k) ==
  CHOOSE g \in Identifiers(data) :
    Cardinality({h \in Identifiers(data) : h < g}) = k - 1

RECURSIVE SumOver(_, _)
SumOver(data, rows) ==
  IF rows = {} THEN 0
  ELSE LET i == CHOOSE i \in rows : TRUE
       IN  data[i].v + SumOver(data, rows \ {i})

\* mean is the mean and range the max - min of the observations of subgroup g
StatisticsOf(data, g, mean, range) ==
  /\ mean.kind = "num"
  /\ mean.n * SizeOf(data, g) = SumOver(data, RowsOf(data, g)) * mean.d
  /\ range.kind = "num" /\ range.d = 1
  /\ \E i, j \in RowsOf(data, g) :
       /\ range.n = data[i].v - data[j].v
       /\ \A m \in RowsOf(data, g) : data[j].v <= data[m].v /\ data[m].v <= data[i].v

\* the file of (Subgroup, X-bar, R) rows written for the parameter of the call
Emitted == values_csv[XParams[xNext - 1]]

Processed == pc \in {"process", "done"} /\ xNext > 1 /\ returned # <<>>

TriplesPaired ==
  \A j \in DOMAIN Emitted :
    StatisticsOf(call.data, Emitted[j][1], Emitted[j][2], Emitted[j][3])

\* C10 as stated: the k-th mean and range are those of the k-th subgroup in
\* order of first appearance, and each emitted triple pairs an identifier with
\* the statistics of that subgroup.
C10_InputOrder ==
  Processed =>
    /\ \A k \in DOMAIN returned.xbar_values :
         StatisticsOf(call.data, KthAppearing(call.data, k),
                      returned.xbar_values[k], returned.r_values[k])
    /\ TriplesPaired

\* C10, amended: the k-th mean and range are those of the subgroup with the
\* k-th smallest identifier, whatever the order of the rows, and each emitted
\* triple pairs an identifier with the statistics of that subgroup.
C10_IdentifierOrder ==
  Processed =>
    /\ Len(returned.xbar_values) = Cardinality(Identifiers(call.data))
    /\ Len(returned.r_values) = Cardinality(Identifiers(call.data))
    /\ \A k \in DOMAIN returned.xbar_values :
         StatisticsOf(call.data, KthSmallest(call.data, k),
                      returned.xbar_values[k], returned.r_values[k])
    /\ Len(Emitted) = Cardinality(Identifiers(call.data))
    /\ TriplesPaired

\* rows that begin with the larger identifier, whose two subgroups differ in
\* mean, analysed and written
C10_Witness ==
  /\ Processed
  /\ Len(Emitted) = 2
  /\ call.data[1].sg = 2
  /\ Emitted[1][1] = 1 /\ Emitted[2][1] = 2
  /\ Emitted[1][2] # Emitted[2][2]

====
